---- MODULE Spec2Model ----
(***************************************************************************)
(* Model of colormath/color_conversions.py: the conversions between color  *)
(* spaces, applied one after another to color objects.                     *)
(*                                                                         *)
(* Python floats are modelled as fixed-point integers: the float v is the  *)
(* integer v * Scale, and every arithmetic operation truncates toward      *)
(* zero.  Python ints (the RGB channels, as int(...) produces them) are    *)
(* plain integers.  The module being Python 2 (the print statement in      *)
(* XYZ_to_RGB), "/" between two ints is floor division.                    *)
(*                                                                         *)
(* A color object is a function from attribute names to values, so that    *)
(* an attribute that was never assigned is absent from its DOMAIN.         *)
(***************************************************************************)
EXTENDS Integers, Sequences, FiniteSets, TLC

\* ------------------------------------------------------------------------
\* Float arithmetic (fixed point)
\* ------------------------------------------------------------------------

\* Number of fixed-point units in 1.0.
Scale == 10000

\* The float literal num/den, e.g. F(7787, 1000) for 7.787.
F(num, den) == (num * Scale) \div den

\* int -> float, as float(...) or mixed int/float arithmetic does.
ToFloat(i) == i * Scale

Abs(x) == IF x < 0 THEN 0 - x ELSE x

Sgn(x) == IF x < 0 THEN 0 - 1 ELSE 1

\* Product of two non-negative floats, split so that no intermediate
\* product leaves the integer range.
UMul(a, b) ==
    LET ah == a \div Scale
        al == a % Scale
        bh == b \div Scale
        bl == b % Scale
    IN  ah * bh * Scale + ah * bl + al * bh + (al * bl) \div Scale

\* a * b
FMul(a, b) == Sgn(a) * Sgn(b) * UMul(Abs(a), Abs(b))

\* Quotient of a non-negative and a positive float by long division, two
\* digits at a time; a large divisor is first scaled down with the dividend.
RECURSIVE UDiv(_, _)
UDiv(a, b) ==
    IF b > 20000000 THEN UDiv(a \div 100, b \div 100)
    ELSE LET q1 == a \div b
             r1 == a % b
             q2 == (r1 * 100) \div b
             r2 == (r1 * 100) % b
             q3 == (r2 * 100) \div b
         IN  q1 * Scale + q2 * 100 + q3

\* a / b for b # 0 (the callers raise ZeroDivisionError when b = 0).
FDiv(a, b) == Sgn(a) * Sgn(b) * UDiv(Abs(a), Abs(b))

\* math.pi
Pi == 31416

\* math.fabs
Fabs(x) == Abs(x)

\* math.sqrt: the least r with r * r >= v, by bisection (exact on squares,
\* 0 included).
RECURSIVE SqrtIter(_, _, _)
SqrtIter(v, lo, hi) ==
    IF lo >= hi THEN lo
    ELSE LET mid == (lo + hi) \div 2
         IN  IF UMul(mid, mid) >= v THEN SqrtIter(v, lo, mid)
             ELSE SqrtIter(v, mid + 1, hi)

Sqrt(v) == SqrtIter(v, 0, 450 * Scale)

\* math.pow(v, 3)
Cube(v) == FMul(FMul(v, v), v)

\* math.pow(v, 1.0 / 3.0) for v >= 0: the least r with r^3 >= v (exact on
\* cubes, 0 included).
RECURSIVE CbrtIter(_, _, _)
CbrtIter(v, lo, hi) ==
    IF lo >= hi THEN lo
    ELSE LET mid == (lo + hi) \div 2
         IN  IF Cube(mid) >= v THEN CbrtIter(v, lo, mid)
             ELSE CbrtIter(v, mid + 1, hi)

Cbrt(v) == CbrtIter(v, 0, 50 * Scale)

\* math.pow(v, e) for v >= 0 and the exponents the module uses:
\* 2, 3, 1/3, 1/2.4 = 5/12 and 1/1.8 = 5/9.
Pow(v, e) ==
    CASE e = F(2, 1) -> FMul(v, v)
      [] e = F(3, 1) -> Cube(v)
      [] e = FDiv(F(1, 1), F(3, 1)) -> Cbrt(v)
      [] e = FDiv(F(1, 1), F(24, 10)) ->
            LET r == Sqrt(Sqrt(Cbrt(v))) IN FMul(FMul(FMul(r, r), FMul(r, r)), r)
      [] e = FDiv(F(1, 1), F(18, 10)) ->
            LET r == Cbrt(Cbrt(v)) IN FMul(FMul(FMul(r, r), FMul(r, r)), r)

\* math.floor, to an int
Floor(v) == v \div Scale

\* atan on [0, 1]: z * (pi/4 + 0.273 * (1 - z)), exact at 0 and at 1.
Atan01(z) == FMul(z, Pi \div 4 + FMul(F(273, 1000), F(1, 1) - z))

\* math.atan2(y, x), in radians in (-pi, pi]
Atan2(y, x) ==
    IF x = 0 /\ y = 0 THEN 0
    ELSE LET ax == Abs(x)
             ay == Abs(y)
             a1 == IF ax >= ay THEN Atan01(FDiv(ay, ax))
                   ELSE Pi \div 2 - Atan01(FDiv(ax, ay))
             a2 == IF x < 0 THEN Pi - a1 ELSE a1
         IN  IF y < 0 THEN 0 - a2 ELSE a2

\* math.radians
Radians(d) == FDiv(FMul(d, Pi), F(180, 1))

\* sin on [0, pi]: 16 x (pi - x) / (5 pi^2 - 4 x (pi - x))
Sin0Pi(x) ==
    LET p == FMul(x, Pi - x)
    IN  FDiv(16 * p, 5 * FMul(Pi, Pi) - 4 * p)

\* math.sin, for -2 pi <= x <= 4 pi
Sin(x) ==
    LET y == x % (2 * Pi)
    IN  IF y <= Pi THEN Sin0Pi(y) ELSE 0 - Sin0Pi(y - Pi)

\* math.cos
Cos(x) == Sin(x + Pi \div 2)

\* ------------------------------------------------------------------------
\* Color objects and the constant tables
\* ------------------------------------------------------------------------

\* obj.name = val on a Python object: the attribute is created when absent.
SetAttr(obj, name, val) ==
    [n \in DOMAIN obj \cup {name} |-> IF n = name THEN val ELSE obj[n]]

\* colorobjs.XYZColor(), LabColor(), ...: a fresh object of the class, with
\* no color value assigned yet.  Reading an attribute that was never
\* assigned raises AttributeError.
NewColor(space) == [space |-> space]

\* An exception propagating to the caller instead of a returned object.
Raise(exc) == [space |-> "Error", error |-> exc]

\* str.lower() on the identifiers in use.
Lower(s) ==
    CASE s = "D65" -> "d65"
      [] s = "D50" -> "d50"
      [] s = "sRGB" -> "srgb"
      [] s = "XYZ_to_RGB" -> "xyz_to_rgb"
      [] OTHER -> s

\* Reference whites, by observer and illuminant, on the 0..100 scale.
ILLUMINANTS ==
    [o \in {"2", "10"} |->
        IF o = "2"
        THEN [i \in {"D65", "D50"} |->
                IF i = "D65"
                THEN [X |-> F(95047, 1000), Y |-> F(100, 1), Z |-> F(108883, 1000)]
                ELSE [X |-> F(96422, 1000), Y |-> F(100, 1), Z |-> F(82521, 1000)]]
        ELSE [i \in {"D65", "D50"} |->
                IF i = "D65"
                THEN [X |-> F(94811, 1000), Y |-> F(100, 1), Z |-> F(107304, 1000)]
                ELSE [X |-> F(96720, 1000), Y |-> F(100, 1), Z |-> F(81427, 1000)]]]

\* cobj.get_illuminant_xyz(): the reference white of the object's
\* illuminant and observer.
get_illuminant_xyz(cobj) == ILLUMINANTS[cobj.observer][cobj.illuminant]

\* constants.ADAPTATION_MATRICES[orig][targ][adaptation], laid out for a
\* row vector multiplied from the left (Bradford).
ADAPTATION_MATRICES ==
    [o \in {"d65", "d50"} |-> [t \in {"d65", "d50"} |-> [a \in {"bradford"} |->
        IF o = t
        THEN << <<F(1, 1), 0, 0>>, <<0, F(1, 1), 0>>, <<0, 0, F(1, 1)>> >>
        ELSE IF o = "d65"
        THEN << <<F(10478, 10000), F(295, 10000), F(-92, 10000)>>,
                <<F(229, 10000), F(9905, 10000), F(150, 10000)>>,
                <<F(-501, 10000), F(-170, 10000), F(7521, 10000)>> >>
        ELSE << <<F(9556, 10000), F(-283, 10000), F(123, 10000)>>,
                <<F(-230, 10000), F(10099, 10000), F(-205, 10000)>>,
                <<F(632, 10000), F(210, 10000), F(13299, 10000)>> >>]]]

\* constants.RGB_SPECS[rgb_type]: native illuminant, gamma and the
\* XYZ -> RGB working-space matrix (row-vector layout).
RGB_SPECS ==
    [t \in {"srgb", "colormatch_rgb"} |->
        IF t = "srgb"
        THEN [native_illum |-> "D65", gamma |-> F(22, 10),
              conversions |-> [c \in {"xyz_to_rgb"} |->
                << <<F(32405, 10000), F(-9693, 10000), F(556, 10000)>>,
                   <<F(-15371, 10000), F(18760, 10000), F(-2040, 10000)>>,
                   <<F(-4985, 10000), F(416, 10000), F(10572, 10000)>> >>]]
        ELSE [native_illum |-> "D50", gamma |-> F(18, 10),
              conversions |-> [c \in {"xyz_to_rgb"} |->
                << <<F(26423, 10000), F(-11120, 10000), F(822, 10000)>>,
                   <<F(-12234, 10000), F(20590, 10000), F(-2807, 10000)>>,
                   <<F(-3930, 10000), F(160, 10000), F(14560, 10000)>> >>]]]

\* constants.SPECTRAL_DISTS[observer][illuminant]: the X, Y, Z weighting
\* vectors, here summing to the reference white.
SPECTRAL_DISTS ==
    [o \in {"2", "10"} |-> [i \in {"d65", "d50"} |->
        LET w == ILLUMINANTS[o][IF i = "d65" THEN "D65" ELSE "D50"]
        IN  [X |-> <<F(33, 1), F(40, 1), w.X - F(73, 1)>>,
             Y |-> <<F(4, 1), F(85, 1), w.Y - F(89, 1)>>,
             Z |-> <<w.Z - F(2, 1), F(2, 1), 0>>]]]

\* numpy.dot of two vectors of three floats (the bands of a sample)
Dot(a, b) == FMul(a[1], b[1]) + FMul(a[2], b[2]) + FMul(a[3], b[3])

\* numpy.dot of a row vector and a 3x3 matrix
VecMat(v, m) ==
    [j \in 1..3 |-> FMul(v[1], m[1][j]) + FMul(v[2], m[2][j]) + FMul(v[3], m[3][j])]

\* ------------------------------------------------------------------------
\* The conversions.  Each operator yields the value the function returns:
\* a color object, or Raise(...) when the call ends in an exception.
\* ------------------------------------------------------------------------

\* _transfer_common forgetting the observer: the new object keeps a
\* default observer.
_transfer_common_default_observer(old_cobj, new_cobj) ==
    SetAttr(SetAttr(new_cobj, "illuminant", old_cobj.illuminant), "observer", "2")

\* Transfer illuminant and observer data to a new color object.
_transfer_common(old_cobj, new_cobj) ==
    SetAttr(SetAttr(new_cobj, "illuminant", old_cobj.illuminant),
            "observer", old_cobj.observer)

apply_XYZ_transformation(cobj, orig_illum, targ_illum, adaptation) ==
    LET transform_matrix ==
            ADAPTATION_MATRICES[Lower(orig_illum)][Lower(targ_illum)][Lower(adaptation)]
        XYZ_matrix == <<cobj.xyz_x, cobj.xyz_y, cobj.xyz_z>>
    IN  VecMat(XYZ_matrix, transform_matrix)

apply_RGB_matrix(var1, var2, var3, rgb_type, convtype) ==
    LET rgb_matrix == RGB_SPECS[Lower(rgb_type)].conversions[Lower(convtype)]
    IN  VecMat(<<var1, var2, var3>>, rgb_matrix)

Spectral_to_XYZ(cobj) ==
    LET xyzcolor == _transfer_common(cobj, NewColor("XYZ"))
        illuminants == SPECTRAL_DISTS[cobj.observer][Lower(cobj.illuminant)]
        sample == cobj.sample
        x == FDiv(Dot(sample, illuminants.X), F(100, 1))
        y == FDiv(Dot(sample, illuminants.Y), F(100, 1))
        z == FDiv(Dot(sample, illuminants.Z), F(100, 1))
    IN  SetAttr(SetAttr(SetAttr(xyzcolor, "xyz_x", x), "xyz_y", y), "xyz_z", z)

\* The hue of Lab_to_LCH and Luv_to_LCH: the angle of atan2 in degrees.
HueDegrees(lch_h) ==
    IF lch_h > 0
    THEN FMul(FDiv(lch_h, Pi), F(180, 1))
    ELSE F(360, 1) - FMul(FDiv(Fabs(lch_h), Pi), F(180, 1))

Lab_to_LCH(cobj) ==
    LET lchcolor == _transfer_common(cobj, NewColor("LCH"))
        lch_l == cobj.lab_l
        lch_c == Sqrt(Pow(cobj.lab_a, F(2, 1)) + Pow(cobj.lab_b, F(2, 1)))
        lch_h == Atan2(cobj.lab_b, cobj.lab_a)
    IN  SetAttr(SetAttr(SetAttr(lchcolor, "lch_l", lch_l), "lch_c", lch_c),
                "lch_h", HueDegrees(lch_h))

\* One channel of Lab_to_XYZ: the cube above the threshold, else the
\* inverse of the linear segment.
LabInverseChannel(v) ==
    IF Pow(v, F(3, 1)) > F(8856, 1000000)
    THEN Pow(v, F(3, 1))
    ELSE FDiv(v - FDiv(F(16, 1), F(116, 1)), F(7787, 1000))

\* The three channel values Lab_to_XYZ computes before the illuminant
\* adjustment.
LabChannels(cobj) ==
    LET y == FDiv(cobj.lab_l + F(16, 1), F(116, 1))
        x == FDiv(cobj.lab_a, F(500, 1)) + y
        z == y - FDiv(cobj.lab_b, F(200, 1))
    IN  [x |-> LabInverseChannel(x), y |-> LabInverseChannel(y),
         z |-> LabInverseChannel(z)]

\* The object Lab_to_XYZ returns: xyzcolor, holding the channel values.
Lab_to_XYZ(cobj) ==
    LET xyzcolor == _transfer_common(cobj, NewColor("XYZ"))
        c == LabChannels(cobj)
    IN  SetAttr(SetAttr(SetAttr(xyzcolor, "xyz_y", c.y), "xyz_x", c.x), "xyz_z", c.z)

\* The argument of Lab_to_XYZ after the call: the illuminant-adjusted
\* values are assigned to cobj.
Lab_to_XYZ_cobj(cobj) ==
    LET illum == get_illuminant_xyz(cobj)
        c == LabChannels(cobj)
    IN  SetAttr(SetAttr(SetAttr(cobj,
            "xyz_x", FDiv(FMul(illum.X, c.x), F(100, 1))),
            "xyz_y", FDiv(FMul(illum.Y, c.y), F(100, 1))),
            "xyz_z", FDiv(FMul(illum.Z, c.z), F(100, 1)))

Luv_to_LCH(cobj) ==
    LET lchcolor == _transfer_common(cobj, NewColor("LCH"))
        lch_c == Sqrt(Pow(cobj.luv_u, F(2, 1)) + Pow(cobj.luv_v, F(2, 1)))
        lch_h == Atan2(cobj.luv_v, cobj.luv_u)
    IN  SetAttr(SetAttr(lchcolor, "lch_c", lch_c), "lch_h", HueDegrees(lch_h))

Luv_to_XYZ(cobj) ==
    LET xyzcolor == _transfer_common(cobj, NewColor("XYZ"))
        illum == get_illuminant_xyz(xyzcolor)
        den == illum.X + 15 * illum.Y + 3 * illum.Z
        ref_U == FDiv(4 * illum.X, den)
        ref_V == FDiv(9 * illum.Y, den)
    IN  IF 13 * cobj.luv_l = 0 THEN Raise("ZeroDivisionError")
        ELSE
        LET var_U == FDiv(cobj.luv_u, 13 * cobj.luv_l) + ref_U
            var_V == FDiv(cobj.luv_u, 13 * cobj.luv_l) + ref_V
            var_Y0 == FDiv(cobj.luv_l + F(16, 1), F(116, 1))
            var_Y == IF Pow(var_Y0, F(3, 1)) > F(8856, 1000000)
                     THEN Pow(var_Y0, F(3, 1))
                     ELSE FDiv(var_Y0 - FDiv(F(16, 1), F(116, 1)), F(7787, 1000))
            xyz_y == FMul(var_Y, F(100, 1))
            xden == FMul(var_U - F(4, 1), var_V) - FMul(var_U, var_V)
        IN  IF xden = 0 \/ 3 * var_V = 0 THEN Raise("ZeroDivisionError")
            ELSE
            LET xyz_x == 0 - FDiv(FMul(9 * xyz_y, var_U), xden)
                xyz_z == FDiv(9 * xyz_y - FMul(15 * var_V, xyz_y) - FMul(var_V, xyz_x),
                              3 * var_V)
            IN  SetAttr(SetAttr(SetAttr(xyzcolor, "xyz_y", xyz_y), "xyz_x", xyz_x),
                        "xyz_z", xyz_z)

LCH_to_Lab(cobj) ==
    LET labcolor == _transfer_common(cobj, NewColor("Lab"))
        lab_a == FMul(Cos(Radians(cobj.lch_h)), cobj.lch_c)
        lab_b == FMul(Sin(Radians(cobj.lch_h)), cobj.lch_c)
    IN  IF "lch_l" \notin DOMAIN cobj THEN Raise("AttributeError")
        ELSE SetAttr(SetAttr(SetAttr(labcolor, "lab_l", cobj.lch_l), "lab_a", lab_a),
                     "lab_b", lab_b)

LCH_to_Luv(cobj) ==
    LET luvcolor == _transfer_common(cobj, NewColor("Luv"))
        luv_u == FMul(Cos(Radians(cobj.lch_h)), cobj.lch_c)
        luv_v == FMul(Sin(Radians(cobj.lch_h)), cobj.lch_c)
    IN  IF "lch_l" \notin DOMAIN cobj THEN Raise("AttributeError")
        ELSE SetAttr(SetAttr(SetAttr(luvcolor, "luv_l", cobj.lch_l), "luv_u", luv_u),
                     "luv_v", luv_v)

XYZ_to_xyY(cobj) ==
    LET xyycolor == _transfer_common(cobj, NewColor("xyY"))
        sum == cobj.xyz_x + cobj.xyz_y + cobj.xyz_z
    IN  IF sum = 0 THEN Raise("ZeroDivisionError")
        ELSE SetAttr(SetAttr(SetAttr(xyycolor,
                "xyy_x", FDiv(cobj.xyz_x, sum)),
                "xyy_y", FDiv(cobj.xyz_y, sum)),
                "xyy_Y", cobj.xyz_y)

\* The cube root above the threshold, else the linear segment
\* (XYZ_to_Lab, XYZ_to_Luv).
LabForwardChannel(t) ==
    IF t > F(8856, 1000000)
    THEN Pow(t, FDiv(F(1, 1), F(3, 1)))
    ELSE FMul(F(7787, 1000), t) + FDiv(F(16, 1), F(116, 1))

XYZ_to_Luv(cobj) ==
    LET luvcolor == _transfer_common(cobj, NewColor("Luv"))
        temp_x == FMul(cobj.xyz_x, F(100, 1))
        temp_y == FMul(cobj.xyz_y, F(100, 1))
        temp_z == FMul(cobj.xyz_z, F(100, 1))
        den == temp_x + 15 * temp_y + 3 * temp_z
    IN  IF den = 0 THEN Raise("ZeroDivisionError")
        ELSE
        LET u0 == FDiv(4 * temp_x, den)
            v0 == FDiv(9 * temp_y, den)
            illum == get_illuminant_xyz(luvcolor)
            ty == LabForwardChannel(FDiv(temp_y, illum.Y))
            iden == illum.X + 15 * illum.Y + 3 * illum.Z
            ref_U == FDiv(4 * illum.X, iden)
            ref_V == FDiv(9 * illum.Y, iden)
            luv_l == FMul(F(116, 1), ty) - F(16, 1)
        IN  SetAttr(SetAttr(SetAttr(luvcolor, "luv_l", luv_l),
                "luv_u", FMul(13 * luv_l, u0 - ref_U)),
                "luv_v", FMul(13 * luv_l, v0 - ref_V))

XYZ_to_Lab(cobj) ==
    LET illum == get_illuminant_xyz(cobj)
        labcolor == _transfer_common(cobj, NewColor("Lab"))
        temp_x == LabForwardChannel(FDiv(FMul(cobj.xyz_x, F(100, 1)), illum.X))
        temp_y == LabForwardChannel(FDiv(FMul(cobj.xyz_y, F(100, 1)), illum.Y))
        temp_z == LabForwardChannel(FDiv(FMul(cobj.xyz_z, F(100, 1)), illum.Z))
    IN  SetAttr(SetAttr(SetAttr(labcolor,
            "lab_l", FMul(F(116, 1), temp_y) - F(16, 1)),
            "lab_a", FMul(F(500, 1), temp_x - temp_y)),
            "lab_b", FMul(F(200, 1), temp_y - temp_z))

\* temp_X, temp_Y, temp_Z of XYZ_to_RGB when line 289 reads them: assigned
\* only inside the branch taken when the illuminants differ.
Unbound == << >>

XYZ_to_RGB_temps(cobj, target_illum) ==
    IF cobj.illuminant # target_illum
    THEN apply_XYZ_transformation(cobj, cobj.illuminant, target_illum, "bradford")
    ELSE Unbound

\* The sRGB companding of one channel.
CompandSRGB(v) ==
    IF v > F(31308, 10000000)
    THEN FMul(F(1055, 1000), Pow(v, FDiv(F(1, 1), F(24, 10)))) - F(55, 1000)
    ELSE FMul(v, F(1292, 100))

\* The companding of one channel of the other RGB spaces.
CompandGamma(v, gamma) ==
    LET c == IF v < 0 THEN 0 ELSE v
    IN  Pow(c, FDiv(ToFloat(1), gamma))

\* ScaleChannel without the cap at 255.
ScaleChannel_uncapped(v) ==
    LET c == IF v < 0 THEN 0 ELSE v
    IN  Floor(F(5, 10) + c * 255)

\* Lines 327-347 for one channel: not under 0, scaled up to 0-255, capped
\* at 255.
ScaleChannel(v) ==
    LET c == IF v < 0 THEN 0 ELSE v
        i == Floor(F(5, 10) + c * 255)
    IN  IF i > 255 THEN 255 ELSE i

\* Lines 295-348: the linear RGB values lin companded, scaled and stored.
EncodeRGB(rgbcolor, lin, target) ==
    LET gamma == RGB_SPECS[target].gamma
        enc == [j \in 1..3 |->
                    IF target = "srgb" THEN CompandSRGB(lin[j])
                    ELSE CompandGamma(lin[j], gamma)]
    IN  SetAttr(SetAttr(SetAttr(rgbcolor,
            "rgb_r", ScaleChannel(enc[1])),
            "rgb_g", ScaleChannel(enc[2])),
            "rgb_b", ScaleChannel(enc[3]))

XYZ_to_RGB(cobj, target_rgb) ==
    LET target == Lower(target_rgb)
        rgbcolor == _transfer_common(cobj, NewColor("RGB"))
        target_illum == RGB_SPECS[target].native_illum
        temps == XYZ_to_RGB_temps(cobj, target_illum)
    IN  IF temps = Unbound THEN Raise("UnboundLocalError")
        ELSE EncodeRGB(rgbcolor,
                apply_RGB_matrix(temps[1], temps[2], temps[3], target, "XYZ_to_RGB"),
                target)

\* xyY_to_XYZ answering a zero chromaticity y with a default value.
xyY_to_XYZ_default(cobj) ==
    LET xyzcolor == _transfer_common(cobj, NewColor("XYZ"))
        y == IF cobj.xyy_y = 0 THEN F(1, 1) ELSE cobj.xyy_y
    IN  SetAttr(SetAttr(SetAttr(xyzcolor,
            "xyz_x", FDiv(FMul(cobj.xyy_x, cobj.xyy_Y), y)),
            "xyz_y", cobj.xyy_Y),
            "xyz_z", FDiv(FMul(F(1, 1) - cobj.xyy_x - cobj.xyy_y, cobj.xyy_Y), y))

xyY_to_XYZ(cobj) ==
    LET xyzcolor == _transfer_common(cobj, NewColor("XYZ"))
    IN  IF cobj.xyy_y = 0 THEN Raise("ZeroDivisionError")
        ELSE
        LET xyz_x == FDiv(FMul(cobj.xyy_x, cobj.xyy_Y), cobj.xyy_y)
            xyz_y == cobj.xyy_Y
            xyz_z == FDiv(FMul(F(1, 1) - cobj.xyy_x - cobj.xyy_y, xyz_y), cobj.xyy_y)
        IN  SetAttr(SetAttr(SetAttr(xyzcolor, "xyz_x", xyz_x), "xyz_y", xyz_y),
                    "xyz_z", xyz_z)

\* 1 - (channel / 255) on an int channel: "/" is the floor division of two
\* ints.  The int result is kept as the float of the same value.
CMYChannel(rgb) == ToFloat(1 - (rgb \div 255))

RGB_to_CMY(cobj) ==
    LET cmycolor == _transfer_common(cobj, NewColor("CMY"))
    IN  SetAttr(SetAttr(SetAttr(cmycolor,
            "cmy_c", CMYChannel(cobj.rgb_r)),
            "cmy_m", CMYChannel(cobj.rgb_g)),
            "cmy_y", CMYChannel(cobj.rgb_b))

RGB_to_XYZ(cobj) ==
    LET xyzcolor == _transfer_common(cobj, NewColor("XYZ"))
    IN  SetAttr(SetAttr(SetAttr(xyzcolor, "xyz_x", F(5, 10)), "xyz_y", F(5, 10)),
                "xyz_z", F(5, 10))

\* var_k of CMY_to_CMYK: the least of 1.0 and the three channels.
CMYK_var_k(cobj) ==
    LET k0 == F(1, 1)
        k1 == IF cobj.cmy_c < k0 THEN cobj.cmy_c ELSE k0
        k2 == IF cobj.cmy_m < k1 THEN cobj.cmy_m ELSE k1
    IN  IF cobj.cmy_y < k2 THEN cobj.cmy_y ELSE k2

CMY_to_CMYK(cobj) ==
    LET cmykcolor == _transfer_common(cobj, NewColor("CMYK"))
        var_k == CMYK_var_k(cobj)
    IN  IF var_k = F(1, 1)
        THEN SetAttr(SetAttr(SetAttr(cmykcolor, "cmyk_c", 0), "cmyk_m", 0), "cmyk_y", 0)
        ELSE SetAttr(SetAttr(SetAttr(cmykcolor,
                "cmyk_c", FDiv(cobj.cmy_c - var_k, F(1, 1) - var_k)),
                "cmyk_m", FDiv(cobj.cmy_m - var_k, F(1, 1) - var_k)),
                "cmyk_y", FDiv(cobj.cmy_y - var_k, F(1, 1) - var_k))

\* ------------------------------------------------------------------------
\* The state: a chain of conversion calls, each applied to the object the
\* previous call returned.
\* ------------------------------------------------------------------------

VARIABLES
    op,          \* the conversion called last ("new": the object was constructed)
    target_rgb,  \* the target_rgb argument of XYZ_to_RGB, "-" for the others
    pre,         \* the argument of the last call, as it was before the call
    cobj,        \* the same object after the call
    result,      \* what the call returned: a color object or Raise(...)
    depth,       \* number of conversions applied so far
    origin,      \* the constructed object the chain started from
    adapted      \* whether a call of the chain applied a chromatic adaptation

vars == <<op, target_rgb, pre, cobj, result, depth, origin, adapted>>

\* Longest chain of conversions.
MaxChain == 4

\* Largest magnitude of a color value a conversion is applied to: the
\* products and quotients of larger values leave the range of the
\* fixed-point integers.
MaxMagnitude == 100

Illuminants == {"D65", "D50"}

Observers == {"2", "10"}

Meta == [illuminant : Illuminants, observer : Observers]

\* A constructed color object: the class, the metadata and the value
\* attributes given by vals (a function from attribute names to values).
Make(space, meta, vals) ==
    [n \in {"space", "illuminant", "observer"} \cup DOMAIN vals |->
        IF n = "space" THEN space
        ELSE IF n = "illuminant" THEN meta.illuminant
        ELSE IF n = "observer" THEN meta.observer
        ELSE vals[n]]

SpectralInputs ==
    { [sample |-> s] : s \in { <<F(5, 10), F(5, 10), F(5, 10)>>,
                                <<F(1, 10), F(8, 10), F(2, 10)>>,
                                <<F(1, 1), F(1, 1), F(1, 1)>>, <<0, 0, 0>> } }

XYZInputs ==
    { [xyz_x |-> t[1], xyz_y |-> t[2], xyz_z |-> t[3]] :
        t \in { <<0, 0, 0>>,
                <<F(95047, 100000), F(1, 1), F(108883, 100000)>>,
                <<F(96422, 100000), F(1, 1), F(82521, 100000)>>,
                <<F(2, 10), F(2, 10), F(2, 10)>>,
                <<F(4124, 10000), F(2126, 10000), F(193, 10000)>>,
                <<F(5, 1000), F(5, 1000), F(5, 1000)>>,
                <<F(12, 10), F(1, 10), 0>>,
                <<F(1, 10), F(3, 10), F(15, 10)>> } }

LabInputs ==
    { [lab_l |-> F(50, 1), lab_a |-> a, lab_b |-> b] :
        a \in {F(-30, 1), 0, F(30, 1)}, b \in {F(-30, 1), 0, F(30, 1)} }
    \cup { [lab_l |-> l, lab_a |-> 0, lab_b |-> 0] : l \in {0, F(5, 1), F(100, 1)} }
    \cup { [lab_l |-> F(70, 1), lab_a |-> F(10, 1), lab_b |-> F(-45, 1)] }

LuvInputs ==
    { [luv_l |-> F(50, 1), luv_u |-> u, luv_v |-> v] :
        u \in {F(-30, 1), 0, F(30, 1)}, v \in {F(-30, 1), 0, F(30, 1)} }
    \cup { [luv_l |-> l, luv_u |-> 0, luv_v |-> 0] : l \in {0, F(5, 1), F(100, 1)} }

LCHInputs ==
    { [lch_l |-> F(50, 1), lch_c |-> c, lch_h |-> h] :
        c \in {0, F(40, 1)}, h \in {0, F(90, 1), F(180, 1), F(225, 1), F(3599, 10)} }

xyYInputs ==
    { [xyy_x |-> x, xyy_y |-> y, xyy_Y |-> Y] :
        x \in {0, F(3127, 10000), F(64, 100)},
        y \in {0, F(3290, 10000), F(6, 10)},
        Y \in {0, F(5, 10), F(1, 1)} }

RGBInputs ==
    { [rgb_r |-> r, rgb_g |-> g, rgb_b |-> b] :
        r \in {0, 128, 255}, g \in {0, 1, 255}, b \in {0, 254, 255} }

CMYInputs ==
    { [cmy_c |-> c, cmy_m |-> m, cmy_y |-> y] :
        c \in {0, F(5, 10), F(1, 1)}, m \in {0, F(25, 100), F(1, 1)},
        y \in {0, F(75, 100), F(1, 1)} }

\* The objects a caller constructs and hands to a conversion.
Inputs ==
    {Make("Spectral", m, v) : m \in Meta, v \in SpectralInputs}
    \cup {Make("XYZ", m, v) : m \in Meta, v \in XYZInputs}
    \cup {Make("Lab", m, v) : m \in Meta, v \in LabInputs}
    \cup {Make("Luv", m, v) : m \in Meta, v \in LuvInputs}
    \cup {Make("LCH", m, v) : m \in Meta, v \in LCHInputs}
    \cup {Make("xyY", m, v) : m \in Meta, v \in xyYInputs}
    \cup {Make("RGB", m, v) : m \in Meta, v \in RGBInputs}
    \cup {Make("CMY", m, v) : m \in Meta, v \in CMYInputs}

Init ==
    /\ op = "new"
    /\ target_rgb = "-"
    /\ result \in Inputs
    /\ pre = result
    /\ cobj = result
    /\ depth = 0
    /\ origin = result
    /\ adapted = FALSE

ValueAttrs(obj) == DOMAIN obj \ {"space", "illuminant", "observer", "sample", "error"}

\* The next call takes the object the last one returned.
CanCall(space) ==
    /\ depth < MaxChain
    /\ result.space = space
    /\ \A n \in ValueAttrs(result) : Abs(result[n]) <= MaxMagnitude * Scale

\* A call of a conversion that leaves its argument as it was.
Call(name, target, ret) ==
    /\ op' = name
    /\ target_rgb' = target
    /\ pre' = result
    /\ cobj' = result
    /\ result' = ret
    /\ depth' = depth + 1
    /\ UNCHANGED <<origin, adapted>>

Call_Spectral_to_XYZ ==
    /\ CanCall("Spectral")
    /\ Call("Spectral_to_XYZ", "-", Spectral_to_XYZ(result))

Call_Lab_to_LCH ==
    /\ CanCall("Lab")
    /\ Call("Lab_to_LCH", "-", Lab_to_LCH(result))

Call_Lab_to_XYZ ==
    /\ CanCall("Lab")
    /\ op' = "Lab_to_XYZ"
    /\ target_rgb' = "-"
    /\ pre' = result
    /\ cobj' = Lab_to_XYZ_cobj(result)
    /\ result' = Lab_to_XYZ(result)
    /\ depth' = depth + 1
    /\ UNCHANGED <<origin, adapted>>

Call_Luv_to_LCH ==
    /\ CanCall("Luv")
    /\ Call("Luv_to_LCH", "-", Luv_to_LCH(result))

Call_Luv_to_XYZ ==
    /\ CanCall("Luv")
    /\ Call("Luv_to_XYZ", "-", Luv_to_XYZ(result))

Call_LCH_to_Lab ==
    /\ CanCall("LCH")
    /\ Call("LCH_to_Lab", "-", LCH_to_Lab(result))

Call_LCH_to_Luv ==
    /\ CanCall("LCH")
    /\ Call("LCH_to_Luv", "-", LCH_to_Luv(result))

Call_XYZ_to_xyY ==
    /\ CanCall("XYZ")
    /\ Call("XYZ_to_xyY", "-", XYZ_to_xyY(result))

Call_XYZ_to_Luv ==
    /\ CanCall("XYZ")
    /\ Call("XYZ_to_Luv", "-", XYZ_to_Luv(result))

Call_XYZ_to_Lab ==
    /\ CanCall("XYZ")
    /\ Call("XYZ_to_Lab", "-", XYZ_to_Lab(result))

Call_XYZ_to_RGB ==
    /\ CanCall("XYZ")
    /\ \E t \in {"sRGB", "colormatch_rgb"} :
            /\ op' = "XYZ_to_RGB"
            /\ target_rgb' = t
            /\ pre' = result
            /\ cobj' = result
            /\ result' = XYZ_to_RGB(result, t)
            /\ depth' = depth + 1
            /\ adapted' = (adapted \/ result.illuminant # RGB_SPECS[Lower(t)].native_illum)
            /\ UNCHANGED origin

Call_xyY_to_XYZ ==
    /\ CanCall("xyY")
    /\ Call("xyY_to_XYZ", "-", xyY_to_XYZ(result))

Call_RGB_to_CMY ==
    /\ CanCall("RGB")
    /\ Call("RGB_to_CMY", "-", RGB_to_CMY(result))

Call_RGB_to_XYZ ==
    /\ CanCall("RGB")
    /\ Call("RGB_to_XYZ", "-", RGB_to_XYZ(result))

Call_CMY_to_CMYK ==
    /\ CanCall("CMY")
    /\ Call("CMY_to_CMYK", "-", CMY_to_CMYK(result))

Next ==
    \/ Call_Spectral_to_XYZ
    \/ Call_Lab_to_LCH
    \/ Call_Lab_to_XYZ
    \/ Call_Luv_to_LCH
    \/ Call_Luv_to_XYZ
    \/ Call_LCH_to_Lab
    \/ Call_LCH_to_Luv
    \/ Call_XYZ_to_xyY
    \/ Call_XYZ_to_Luv
    \/ Call_XYZ_to_Lab
    \/ Call_XYZ_to_RGB
    \/ Call_xyY_to_XYZ
    \/ Call_RGB_to_CMY
    \/ Call_RGB_to_XYZ
    \/ Call_CMY_to_CMYK

Spec == Init /\ [][Next]_vars

\* ------------------------------------------------------------------------
\* Properties
\* ------------------------------------------------------------------------

Returned == op # "new" /\ result.space # "Error"

SameMeta(a, b) == a.illuminant = b.illuminant /\ a.observer = b.observer

\* The last call is one that applies no chromatic adaptation.
NonAdaptingCall ==
    \/ op \in {"Spectral_to_XYZ", "Lab_to_LCH", "Lab_to_XYZ", "Luv_to_LCH",
               "Luv_to_XYZ", "LCH_to_Lab", "LCH_to_Luv", "XYZ_to_xyY", "XYZ_to_Luv",
               "XYZ_to_Lab", "xyY_to_XYZ", "RGB_to_CMY", "RGB_to_XYZ", "CMY_to_CMYK"}
    \/ /\ op = "XYZ_to_RGB"
       /\ pre.illuminant = RGB_SPECS[Lower(target_rgb)].native_illum

\* C1: a conversion that applies no chromatic adaptation and returns an
\* object returns one with the illuminant and observer of its argument, and
\* after a chain of such conversions the object returned has the illuminant
\* and observer of the object the chain started from.
C1_MetadataPreserved ==
    /\ (Returned /\ NonAdaptingCall) => SameMeta(result, pre)
    /\ (Returned /\ ~adapted) => SameMeta(result, origin)

\* C1 witness: a chain of at least two non-adapting conversions has returned
\* an object, for an observer other than the default one.
C1_Witness ==
    /\ Returned /\ NonAdaptingCall /\ ~adapted
    /\ depth >= 2
    /\ origin.observer = "10"
    /\ origin.space # result.space

\* C2: after a conversion call the argument has the attributes, and the
\* attribute values, it had before the call.
C2_InputUnchanged == op # "new" => cobj = pre

\* C3: the hue Lab_to_LCH and Luv_to_LCH produce lies in [0, 360).
C3_HueInRange ==
    (Returned /\ op \in {"Lab_to_LCH", "Luv_to_LCH"}) =>
        (result.lch_h >= 0 /\ result.lch_h < F(360, 1))

\* C4: XYZ_to_RGB called with the native illuminant of the target space
\* completes without error and returns what the working-space matrix and the
\* encoding make of the argument's own xyz_x, xyz_y, xyz_z; black then
\* gives (0, 0, 0).
C4_MatchingIlluminantUsesInput ==
    (op = "XYZ_to_RGB" /\ pre.illuminant = RGB_SPECS[Lower(target_rgb)].native_illum) =>
        /\ result.space = "RGB"
        /\ result = EncodeRGB(_transfer_common(pre, NewColor("RGB")),
                        apply_RGB_matrix(pre.xyz_x, pre.xyz_y, pre.xyz_z,
                                         Lower(target_rgb), "XYZ_to_RGB"),
                        Lower(target_rgb))
        /\ (pre.xyz_x = 0 /\ pre.xyz_y = 0 /\ pre.xyz_z = 0) =>
                (result.rgb_r = 0 /\ result.rgb_g = 0 /\ result.rgb_b = 0)

\* The linear RGB values of the last XYZ_to_RGB call that returned.
LinearRGB ==
    LET target == Lower(target_rgb)
        temps == XYZ_to_RGB_temps(pre, RGB_SPECS[target].native_illum)
    IN  apply_RGB_matrix(temps[1], temps[2], temps[3], target, "XYZ_to_RGB")

RGBChannels == <<result.rgb_r, result.rgb_g, result.rgb_b>>

\* C5: whenever XYZ_to_RGB returns, each of rgb_r, rgb_g, rgb_b is an
\* integer in 0..255; a negative linear value gives 0 and a linear value
\* above 1 gives 255.
C5_ChannelsInRange ==
    (Returned /\ op = "XYZ_to_RGB") =>
        \A j \in 1..3 :
            /\ RGBChannels[j] \in 0..255
            /\ LinearRGB[j] < 0 => RGBChannels[j] = 0
            /\ LinearRGB[j] > F(1, 1) => RGBChannels[j] = 255

\* C5 witness: XYZ_to_RGB has returned for linear values of which one is
\* negative and one is greater than 1, for a gamma-based target space.
C5_Witness ==
    /\ Returned /\ op = "XYZ_to_RGB"
    /\ target_rgb = "colormatch_rgb"
    /\ \E j \in 1..3 : LinearRGB[j] < 0
    /\ \E j \in 1..3 : LinearRGB[j] > F(1, 1)

\* min(c, m, y)
Min3(a, b, c) ==
    LET m == IF a < b THEN a ELSE b
    IN  IF m < c THEN m ELSE c

\* C6: CMY_to_CMYK returns an object with all four components set, k being
\* min(c, m, y); with k = 1 the others are 0, else (channel - k) / (1 - k).
C6_AllFourComponents ==
    op = "CMY_to_CMYK" =>
        LET k == Min3(pre.cmy_c, pre.cmy_m, pre.cmy_y)
        IN  /\ {"cmyk_c", "cmyk_m", "cmyk_y", "cmyk_k"} \subseteq DOMAIN result
            /\ result.cmyk_k = k
            /\ IF k = F(1, 1)
               THEN result.cmyk_c = 0 /\ result.cmyk_m = 0 /\ result.cmyk_y = 0
               ELSE /\ result.cmyk_c = FDiv(pre.cmy_c - k, F(1, 1) - k)
                    /\ result.cmyk_m = FDiv(pre.cmy_m - k, F(1, 1) - k)
                    /\ result.cmyk_y = FDiv(pre.cmy_y - k, F(1, 1) - k)

\* Equal within the rounding of the fixed-point arithmetic: half a percent
\* of the magnitudes, plus ten units.
Close(a, b) == Abs(a - b) * 100 <= Abs(a) + Abs(b) + 1000

\* The last two calls were XYZ_to_Lab and Lab_to_XYZ on a constructed XYZ
\* object of non-negative components.
LabRoundTrip ==
    /\ depth = 2 /\ op = "Lab_to_XYZ" /\ origin.space = "XYZ"
    /\ origin.xyz_x >= 0 /\ origin.xyz_y >= 0 /\ origin.xyz_z >= 0

\* C7: Lab_to_XYZ applied to what XYZ_to_Lab returned returns the original
\* xyz_x, xyz_y, xyz_z.
C7_LabRoundTrip ==
    LabRoundTrip =>
        /\ Close(result.xyz_x, origin.xyz_x)
        /\ Close(result.xyz_y, origin.xyz_y)
        /\ Close(result.xyz_z, origin.xyz_z)

\* The values Lab_to_XYZ assigns to its argument are the original ones:
\* the tolerance of Close is wide enough for the arithmetic of the model.
AdjustedValuesRoundTrip ==
    LabRoundTrip =>
        /\ Close(cobj.xyz_x, origin.xyz_x)
        /\ Close(cobj.xyz_y, origin.xyz_y)
        /\ Close(cobj.xyz_z, origin.xyz_z)

\* The exceptions that report a mathematically undefined input.
DomainError == {"ZeroDivisionError", "ValueError"}

\* Bound on |q * y - n| when q is the float quotient n / y.
QuotientSlack(y) == Abs(y) \div Scale + 3

\* C8: xyY_to_XYZ with y = 0 raises a domain error and returns no object;
\* with y # 0 it returns X = x * Y / y, Y = Y, Z = (1 - x - y) * Y / y.
C8_ZeroChromaticityRaises ==
    op = "xyY_to_XYZ" =>
        IF pre.xyy_y = 0
        THEN result.space = "Error" /\ result.error \in DomainError
        ELSE /\ result.space = "XYZ"
             /\ result.xyz_y = pre.xyy_Y
             /\ Abs(FMul(result.xyz_x, pre.xyy_y) - FMul(pre.xyy_x, pre.xyy_Y))
                    <= QuotientSlack(pre.xyy_y)
             /\ Abs(FMul(result.xyz_z, pre.xyy_y)
                    - FMul(F(1, 1) - pre.xyy_x - pre.xyy_y, pre.xyy_Y))
                    <= QuotientSlack(pre.xyy_y)

\* C8 witness: xyY_to_XYZ was called with y = 0 and a luminance other
\* than 0.
C8_Witness == op = "xyY_to_XYZ" /\ pre.xyy_y = 0 /\ pre.xyy_Y # 0

\* C9: RGB_to_CMY computes 1 - channel / 255 with exact division, each
\* component in [0, 1].
C9_ExactDivision ==
    op = "RGB_to_CMY" =>
        /\ Abs(result.cmy_c - FDiv(ToFloat(255 - pre.rgb_r), ToFloat(255))) <= 1
        /\ Abs(result.cmy_m - FDiv(ToFloat(255 - pre.rgb_g), ToFloat(255))) <= 1
        /\ Abs(result.cmy_y - FDiv(ToFloat(255 - pre.rgb_b), ToFloat(255))) <= 1
        /\ \A n \in {"cmy_c", "cmy_m", "cmy_y"} : result[n] \in 0..F(1, 1)

\* The lightness attribute of an object of a polar or rectangular space.
Lightness(space) ==
    CASE space = "Lab" -> "lab_l"
      [] space = "Luv" -> "luv_l"
      [] space = "LCH" -> "lch_l"

\* C10: each of Lab_to_LCH, Luv_to_LCH, LCH_to_Lab and LCH_to_Luv returns
\* an object whose l component is set and equal to its argument's.
C10_LightnessPreserved ==
    op \in {"Lab_to_LCH", "Luv_to_LCH", "LCH_to_Lab", "LCH_to_Luv"} =>
        /\ result.space # "Error"
        /\ Lightness(result.space) \in DOMAIN result
        /\ result[Lightness(result.space)] = pre[Lightness(pre.space)]

====
